---- MODULE Spec2Model ----
(***************************************************************************)
(* Model of the ingestion pipeline (block downloader and segmenter of      *)
(* dna/evm/src/ingestion) and of the data stream client (sdk/src/lib.rs).  *)
(*                                                                         *)
(* A cursor is represented by its block number: the downloader requests    *)
(* blocks by number and never by hash, so the hash plays no part in the    *)
(* control flow modelled here.                                             *)
(***************************************************************************)
EXTENDS Integers, Sequences, FiniteSets, TLC

\* ------------------------------------------------------------------------
\* Bounds of the model
\* ------------------------------------------------------------------------
\* Largest block number the chain tracker reports as head or finalized.
MaxHead == 4
\* Largest block number delivered to the segmenter.
MaxBlock == 7
\* Largest finalized block number of the Initialize message.
MaxFinalized == 5
\* Largest first_block_number a run is started with.
MaxFirstBlock == 2
\* Largest block number the chain tracker reports, as head or finalized,
\* in the runs that follow its finalized cursor through the pipeline.
MaxReported == 2
\* Capacity of the bounded queues (mpsc::channel(128) in the source).
QueueCap == 1
\* Largest number of configurations the configuration stream produces.
MaxConfigurations == 3
\* Largest number of responses in flight from the server to the client.
MaxInFlight == 1

\* ------------------------------------------------------------------------
\* SegmentOptions
\* ------------------------------------------------------------------------
\* The options of the runs explored: segments of 2 blocks, groups of 2
\* segments.
ModelSegmentOptions == [segment_size |-> 2, group_size |-> 4]

VARIABLES
    \* --- environment
    segment_options,    \* snapshot.segment_options, fixed for a run
    first_block_number, \* argument of BlockDownloaderService::start
    ct,                 \* the cancellation token: TRUE once cancelled
    staged,             \* local storage: numbers n with blocks/{n}-{hash}/block
    tracker_finalized,  \* the finalized cursor the chain tracker reported last
    \* --- downloader (download_loop)
    dl_pc,
    head,
    current_block_number,
    is_downloading,
    download_fut,       \* {} = pending()/terminated, {n} = download_block(n)
    dl_event,           \* the event the loop is sending, in a send state
    dl_finalized,       \* the local `finalized`, from Initialize until Started is sent
    dl_exit,            \* how download_loop returned, "" while it runs
    block_events,       \* the mpsc channel downloader -> segmenter
    fetch_log,          \* history: block numbers passed to download_block
    first_sent,         \* history: type of the first BlockEvent put on the channel
    started_sent,       \* history: number of Started events put on the channel
    ingested_log,       \* history: numbers of the Ingested events sent
    \* --- segmenter (segmenter_loop, Worker)
    seg_pc,
    snapshot,
    finalized,
    segment,            \* <<>> = None, <<data>> = Some(data)
    crossing,           \* the seal in progress crosses a group boundary
    snapshot_changes,   \* the mpsc channel segmenter -> consumer
    snapshot_rx_closed, \* the consumer dropped its receiver
    durable_segments,   \* durable storage: segment/{name} artifacts
    durable_groups,     \* durable storage: group/{name} artifacts
    published,          \* history: snapshot documents written to durable storage
    first_change,       \* history: type of the first SnapshotChange put on the channel
    started_changes,    \* history: number of SnapshotChange::Started put on the channel
    \* --- data stream client (DataStream) and its server
    configuration_stream, \* DataStream::configuration_stream: items ready, ended
    inner_rx_dropped,   \* the receiver of inner_tx (the request stream) was dropped
    stream_id,          \* DataStream::stream_id
    stream_ended,       \* why poll_next returned Ready(None), or "no"
    requests,           \* the mpsc channel client -> server (inner_tx)
    server_ids,         \* stream ids of the requests the server has received
    responses,          \* the server's response stream (inner)
    last_forwarded,     \* history: id of the last request put on inner_tx
    configured,         \* history: what poll_next did with the last configuration
    polled,             \* history: what poll_next did with the last response
    dropped_ids         \* history: the stream ids of the responses dropped

dl_hist == <<dl_finalized, dl_exit, first_sent, started_sent>>
dl_vars == <<dl_pc, head, current_block_number, is_downloading,
             download_fut, dl_event, fetch_log, ingested_log, dl_hist>>
seg_hist == <<first_change, started_changes>>
seg_vars == <<seg_pc, snapshot, finalized, segment, crossing, durable_segments,
              durable_groups, published, seg_hist>>
env_vars == <<segment_options, first_block_number, ct, staged, tracker_finalized>>
client_vars == <<configuration_stream, inner_rx_dropped, stream_id, stream_ended, requests, server_ids, responses,
                 last_forwarded, configured, polled, dropped_ids>>
vars == <<env_vars, dl_vars, block_events, seg_vars, snapshot_changes,
          snapshot_rx_closed, client_vars>>

segment_size == segment_options.segment_size
group_size == segment_options.group_size

segment_start(n) == n - (n % segment_size)
segment_group_start(n) == n - (n % group_size)

Heads == 0..MaxHead
Finalizeds == 0..MaxFinalized
Blocks == 0..MaxBlock

Event(t, n) == [type |-> t, number |-> n]

Last(s) == s[Len(s)]

\* The snapshot the segmenter is started from: nothing ingested yet.
starting_snapshot ==
    [revision |-> 0, group_count |-> 0, extra_segment_count |-> 0]

\* No event is being sent.
NoEvent == Event("None", 0)

\* A task that has returned or panicked has dropped its channel ends.
dl_terminated == dl_pc \in {"ok", "fatal", "error"}
seg_terminated == seg_pc \in {"ok", "fatal", "error", "todo", "assert_failed"}

\* ------------------------------------------------------------------------
\* Initial state: both tasks spawned, nothing received yet; the segmenter
\* starts from an empty snapshot.
\* ------------------------------------------------------------------------
InitWith(options, first_block_numbers) ==
    /\ segment_options = options
    /\ first_block_number \in first_block_numbers
    /\ tracker_finalized = 0
    /\ ct = FALSE
    /\ staged = {}
    /\ dl_pc = "await_init"
    /\ head = 0
    /\ current_block_number = 0
    /\ is_downloading = FALSE
    /\ download_fut = {}
    /\ dl_event = NoEvent
    /\ dl_finalized = 0
    /\ dl_exit = ""
    /\ first_sent = "None"
    /\ started_sent = 0
    /\ block_events = <<>>
    /\ fetch_log = <<>>
    /\ ingested_log = <<>>
    /\ seg_pc = "await_started"
    /\ snapshot = starting_snapshot
    /\ finalized = 0
    /\ segment = <<>>
    /\ crossing = FALSE
    /\ snapshot_changes = <<>>
    /\ snapshot_rx_closed = FALSE
    /\ durable_segments = {}
    /\ durable_groups = {}
    /\ published = <<>>
    /\ first_change = "None"
    /\ started_changes = 0
    /\ configuration_stream = [ready |-> 0, ended |-> FALSE]
    /\ inner_rx_dropped = FALSE
    /\ stream_id = 0
    /\ stream_ended = "no"
    /\ requests = <<>>
    /\ server_ids = {}
    /\ responses = <<>>
    /\ last_forwarded = 0
    /\ configured = [stream_id |-> 0, outcome |-> "none"]
    /\ polled = [stream_id |-> 0, kind |-> "none", forwarded |-> 0,
                 outcome |-> "none"]
    /\ dropped_ids = {}

Init == InitWith(ModelSegmentOptions, 0..MaxFirstBlock)

\* ------------------------------------------------------------------------
\* Block downloader: BlockDownloaderService::download_loop
\* ------------------------------------------------------------------------

\* The first fetch of a run (downloader.rs:120-128): the block at
\* current_block_number, when it is below the head.
InitialFetch_none(current, h) == {}
InitialFetch(current, h) == IF current < h THEN {current} ELSE {}

\* The fetch started after an Ingested event was sent (downloader.rs:149-154).
NextAfterIngested(current, h) == IF current < h THEN current + 1 ELSE current

\* The fetch started by a NewHead received while idle (downloader.rs:165-169).
NextOnNewHead_refetch(current, h, downloading) == current
NextOnNewHead(current, h, downloading) ==
    IF ~downloading /\ current < h THEN current + 1 ELSE current

\* BlockEvent::Started { finalized: finalized.clone() } (downloader.rs:131-133).
StartedEvent_default(f) == Event("Started", 0)
StartedEvent(f) == Event("Started", f)

\* if finalized.number < first_block_number (downloader.rs:113).
FinalizedBehind_reversed(f, first) == first < f
FinalizedBehind_never(f, first) == FALSE
FinalizedBehind(f, first) == f < first

\* First ChainChange is Initialize{head: h, finalized: f} (downloader.rs:99-128).
DlInitializeWith(h, f) ==
    /\ dl_pc = "await_init"
    /\  /\ head' = h
        /\ dl_finalized' = f
        /\ IF FinalizedBehind(f, first_block_number)
           THEN /\ dl_pc' = "fatal"
                /\ dl_exit' = "finalized block is behind the starting block"
                /\ UNCHANGED <<current_block_number, is_downloading, download_fut,
                               dl_event, fetch_log>>
           ELSE /\ current_block_number' = first_block_number
                /\ UNCHANGED dl_exit
                /\ download_fut' = InitialFetch(first_block_number, h)
                /\ is_downloading' = (download_fut' # {})
                /\ fetch_log' = IF download_fut' # {}
                                THEN Append(fetch_log, first_block_number)
                                ELSE fetch_log
                /\ dl_event' = StartedEvent(f)
                /\ dl_pc' = "send_started"
    /\ UNCHANGED client_vars
    /\ UNCHANGED <<first_sent, started_sent>>
    /\ UNCHANGED <<segment_options, first_block_number, ct, staged, ingested_log,
                   block_events, seg_vars, snapshot_changes, snapshot_rx_closed>>

DlInitialize ==
    /\ \E h \in Heads, f \in Finalizeds : DlInitializeWith(h, f)
    /\ UNCHANGED tracker_finalized

\* How the loop returns when the first ChainChange is not Initialize
\* (downloader.rs:107-109).
InitUnexpectedExit_ok == "ok"
InitUnexpectedExit == "fatal"

\* The first ChainChange is NewHead, NewFinalized or Invalidate
\* (downloader.rs:105-110).
DlInitUnexpected ==
    /\ dl_pc = "await_init"
    /\ \E change \in {"NewHead", "NewFinalized", "Invalidate"} :
        /\ dl_pc' = InitUnexpectedExit
        /\ dl_exit' = "expected chain initialization"
    /\ UNCHANGED client_vars
    /\ UNCHANGED <<dl_finalized, first_sent, started_sent>>
    /\ UNCHANGED <<env_vars, head, current_block_number,
                   is_downloading, download_fut, dl_event, fetch_log, ingested_log,
                   block_events, seg_vars, snapshot_changes, snapshot_rx_closed>>

\* The chain changes stream ended before its first message
\* (downloader.rs:100-103).
DlInitStreamEnded ==
    /\ dl_pc = "await_init"
    /\ dl_pc' = "fatal"
    /\ dl_exit' = "chain changes stream ended unexpectedly"
    /\ UNCHANGED client_vars
    /\ UNCHANGED <<dl_finalized, first_sent, started_sent>>
    /\ UNCHANGED <<env_vars, head, current_block_number,
                   is_downloading, download_fut, dl_event, fetch_log, ingested_log,
                   block_events, seg_vars, snapshot_changes, snapshot_rx_closed>>

\* tx.send(event).await: fails once the receiver is dropped, waits while the
\* queue is full, otherwise enqueues.
SendCloses == seg_terminated

\* let Ok(_) = tx.send(..).await else { return Ok(()) } / else { break }:
\* how the loop returns when the send fails (downloader.rs:136, 146, 173,
\* 178, 187).
SendClosedExit_fatal == "fatal"
SendClosedExit == "ok"
SendFits == ~seg_terminated /\ Len(block_events) < QueueCap

\* tx.send(BlockEvent::Started{..}).await (downloader.rs:130-137).
DlSendStarted ==
    /\ dl_pc = "send_started"
    /\ \/ /\ SendCloses
          /\ dl_pc' = SendClosedExit
          /\ dl_exit' = "receiver dropped"
          /\ UNCHANGED <<first_sent, started_sent>>
          /\ UNCHANGED block_events
       \/ /\ SendFits
          /\ block_events' = Append(block_events, dl_event)
          /\ first_sent' = IF first_sent = "None" THEN dl_event.type ELSE first_sent
          /\ started_sent' = IF dl_event.type = "Started"
                             THEN started_sent + 1 ELSE started_sent
          /\ UNCHANGED dl_exit
          /\ dl_pc' = "select"
    /\ dl_event' = NoEvent
    /\ dl_finalized' = 0  \* `finalized` is not read after this send
    /\ UNCHANGED client_vars
    /\ UNCHANGED <<env_vars, head, current_block_number,
                   is_downloading, download_fut, fetch_log, ingested_log,
                   seg_vars, snapshot_changes, snapshot_rx_closed>>

\* select!: ct.cancelled() => break (downloader.rs:141).
DlCancelled ==
    /\ dl_pc = "select"
    /\ ct
    /\ dl_pc' = "ok"
    /\ dl_exit' = "cancelled"
    /\ UNCHANGED <<dl_finalized, first_sent, started_sent>>
    /\ UNCHANGED client_vars
    /\ UNCHANGED <<env_vars, head, current_block_number,
                   is_downloading, download_fut, dl_event, fetch_log, ingested_log,
                   block_events, seg_vars, snapshot_changes, snapshot_rx_closed>>

\* select!: the fetch completes: download_block wrote the staged block file
\* and returned the cursor (downloader.rs:142-143, 192-256).
DlDownloadDone ==
    /\ dl_pc = "select"
    /\ \E n \in download_fut :
        /\ staged' = staged \cup {n}
        /\ dl_event' = Event("Ingested", n)
    /\ download_fut' = {}
    /\ dl_pc' = "send_ingested"
    /\ UNCHANGED client_vars
    /\ UNCHANGED dl_hist
    /\ UNCHANGED <<tracker_finalized, segment_options, first_block_number, ct, head, current_block_number, is_downloading, fetch_log, ingested_log,
                   block_events, seg_vars, snapshot_changes, snapshot_rx_closed>>

\* select!: the fetch fails; the error propagates with `?` (downloader.rs:143).
DlDownloadFailed ==
    /\ dl_pc = "select"
    /\ download_fut # {}
    /\ download_fut' = {}
    /\ dl_pc' = "error"
    /\ dl_exit' = "block download failed"
    /\ UNCHANGED <<dl_finalized, first_sent, started_sent>>
    /\ UNCHANGED client_vars
    /\ UNCHANGED <<env_vars, head, current_block_number,
                   is_downloading, dl_event, fetch_log, ingested_log,
                   block_events, seg_vars, snapshot_changes, snapshot_rx_closed>>

\* tx.send(BlockEvent::Ingested(..)).await, then the next fetch
\* (downloader.rs:145-154).
DlSendIngested ==
    /\ dl_pc = "send_ingested"
    /\ \/ /\ SendCloses
          /\ dl_pc' = SendClosedExit
          /\ dl_exit' = "receiver dropped"
          /\ UNCHANGED <<first_sent, started_sent>>
          /\ UNCHANGED <<block_events, ingested_log, current_block_number,
                         download_fut, is_downloading, fetch_log>>
       \/ /\ SendFits
          /\ block_events' = Append(block_events, dl_event)
          /\ first_sent' = IF first_sent = "None" THEN dl_event.type ELSE first_sent
          /\ started_sent' = IF dl_event.type = "Started"
                             THEN started_sent + 1 ELSE started_sent
          /\ UNCHANGED dl_exit
          /\ ingested_log' = Append(ingested_log, dl_event.number)
          /\ IF current_block_number < head
             THEN /\ current_block_number' =
                        NextAfterIngested(current_block_number, head)
                  /\ download_fut' = {current_block_number'}
                  /\ fetch_log' = Append(fetch_log, current_block_number')
                  /\ UNCHANGED is_downloading
             ELSE /\ is_downloading' = FALSE
                  /\ UNCHANGED <<current_block_number, download_fut, fetch_log>>
          /\ dl_pc' = "select"
    /\ dl_event' = NoEvent
    /\ UNCHANGED dl_finalized
    /\ UNCHANGED client_vars
    /\ UNCHANGED <<env_vars, head, seg_vars, snapshot_changes, snapshot_rx_closed>>

\* if !is_downloading && current_block_number < head.number
\* (downloader.rs:165).
StartsFetchOnNewHead_busy(current, h, downloading) == current < h
StartsFetchOnNewHead(current, h, downloading) == ~downloading /\ current < h

\* select!: ChainChange::NewHead(h) (downloader.rs:163-170).
DlNewHeadWith(h) ==
    /\ dl_pc = "select"
    /\  /\ head' = h
        /\ IF StartsFetchOnNewHead(current_block_number, h, is_downloading)
           THEN /\ current_block_number' =
                      NextOnNewHead(current_block_number, h, is_downloading)
                /\ download_fut' = {current_block_number'}
                /\ fetch_log' = Append(fetch_log, current_block_number')
                /\ is_downloading' = TRUE
           ELSE UNCHANGED <<current_block_number, download_fut, fetch_log,
                            is_downloading>>
    /\ UNCHANGED client_vars
    /\ UNCHANGED dl_hist
    /\ UNCHANGED <<tracker_finalized, segment_options, first_block_number, ct, staged, dl_pc, dl_event,
                   ingested_log, block_events, seg_vars, snapshot_changes,
                   snapshot_rx_closed>>

DlNewHead == \E h \in Heads : DlNewHeadWith(h)

\* select!: ChainChange::NewFinalized(f) (downloader.rs:171-175).
FinalizedEvent_head(f) == Event("Finalized", head)
FinalizedEvent(f) == Event("Finalized", f)

DlNewFinalizedWith(f) ==
    /\ dl_pc = "select"
    /\ dl_event' = FinalizedEvent(f)
    /\ dl_pc' = "send_change"
    /\ UNCHANGED client_vars
    /\ UNCHANGED dl_hist
    /\ UNCHANGED <<segment_options, first_block_number, ct, staged, head, current_block_number, is_downloading, download_fut, fetch_log,
                   ingested_log, block_events, seg_vars, snapshot_changes,
                   snapshot_rx_closed>>

DlNewFinalized ==
    /\ \E f \in Heads : DlNewFinalizedWith(f)
    /\ UNCHANGED tracker_finalized

\* select!: ChainChange::Invalidate (downloader.rs:176-180).
DlInvalidate ==
    /\ dl_pc = "select"
    /\ dl_event' = Event("Invalidate", 0)
    /\ dl_pc' = "send_change"
    /\ UNCHANGED client_vars
    /\ UNCHANGED dl_hist
    /\ UNCHANGED <<tracker_finalized, segment_options, first_block_number, ct, staged, head, current_block_number, is_downloading, download_fut, fetch_log,
                   ingested_log, block_events, seg_vars, snapshot_changes,
                   snapshot_rx_closed>>

\* select!: a second ChainChange::Initialize falls to `_ => {}`
\* (downloader.rs:181).
DlOtherChange ==
    /\ dl_pc = "select"
    /\ dl_pc' = "other_change"
    /\ UNCHANGED client_vars
    /\ UNCHANGED dl_hist
    /\ UNCHANGED <<env_vars, head, current_block_number,
                   is_downloading, download_fut, dl_event, fetch_log, ingested_log,
                   block_events, seg_vars, snapshot_changes, snapshot_rx_closed>>

\* The empty arm is done: the loop goes round to select! again
\* (downloader.rs:139, 181).
DlOtherChangeIgnored ==
    /\ dl_pc = "other_change"
    /\ dl_pc' = "select"
    /\ UNCHANGED dl_hist
    /\ UNCHANGED client_vars
    /\ UNCHANGED <<env_vars, head, current_block_number,
                   is_downloading, download_fut, dl_event, fetch_log, ingested_log,
                   block_events, seg_vars, snapshot_changes, snapshot_rx_closed>>

\* select!: the chain changes stream ended (downloader.rs:157-160).
DlChangesEnded ==
    /\ dl_pc = "select"
    /\ dl_pc' = "fatal"
    /\ dl_exit' = "chain changes stream ended unexpectedly"
    /\ UNCHANGED <<dl_finalized, first_sent, started_sent>>
    /\ UNCHANGED client_vars
    /\ UNCHANGED <<env_vars, head, current_block_number,
                   is_downloading, download_fut, dl_event, fetch_log, ingested_log,
                   block_events, seg_vars, snapshot_changes, snapshot_rx_closed>>

\* tx.send(Finalized | Invalidate).await (downloader.rs:172-179).
DlSendChange ==
    /\ dl_pc = "send_change"
    /\ \/ /\ SendCloses
          /\ dl_pc' = SendClosedExit
          /\ dl_exit' = "receiver dropped"
          /\ UNCHANGED <<first_sent, started_sent>>
          /\ UNCHANGED block_events
       \/ /\ SendFits
          /\ block_events' = Append(block_events, dl_event)
          /\ first_sent' = IF first_sent = "None" THEN dl_event.type ELSE first_sent
          /\ started_sent' = IF dl_event.type = "Started"
                             THEN started_sent + 1 ELSE started_sent
          /\ UNCHANGED dl_exit
          /\ dl_pc' = "select"
    /\ dl_event' = NoEvent
    /\ UNCHANGED dl_finalized
    /\ UNCHANGED client_vars
    /\ UNCHANGED <<env_vars, head, current_block_number,
                   is_downloading, download_fut, fetch_log, ingested_log,
                   seg_vars, snapshot_changes, snapshot_rx_closed>>

\* CancellationToken::cancel by the owner of the pipeline.
Cancel ==
    /\ ~ct
    /\ ct' = TRUE
    /\ UNCHANGED client_vars
    /\ UNCHANGED <<tracker_finalized, segment_options, first_block_number, staged, dl_vars, block_events,
                   seg_vars, snapshot_changes, snapshot_rx_closed>>

\* The consumer of the BlockEvent stream, seen from the downloader: it takes
\* the next event (segmenter.rs:89, 122) ...
DownstreamRecv ==
    /\ ~seg_terminated
    /\ block_events # <<>>
    /\ block_events' = SubSeq(block_events, 2, Len(block_events))
    /\ UNCHANGED client_vars
    /\ UNCHANGED <<env_vars, dl_vars, seg_vars, snapshot_changes, snapshot_rx_closed>>

\* ... or returns, dropping the receiver (segmenter.rs:90, 97, 107, 121-129).
DownstreamExit ==
    /\ ~seg_terminated
    /\ seg_pc' = "ok"
    /\ UNCHANGED client_vars
    /\ UNCHANGED seg_hist
    /\ UNCHANGED <<env_vars, dl_vars, block_events, snapshot, finalized, segment,
                   crossing, durable_segments, durable_groups, published,
                   snapshot_changes, snapshot_rx_closed>>

DownloaderNext ==
    \/ DlInitialize
    \/ DlInitUnexpected
    \/ DlInitStreamEnded
    \/ DlSendStarted
    \/ DlCancelled
    \/ DlDownloadDone
    \/ DlDownloadFailed
    \/ DlSendIngested
    \/ DlNewHead
    \/ DlNewFinalized
    \/ DlInvalidate
    \/ DlOtherChange
    \/ DlOtherChangeIgnored
    \/ DlChangesEnded
    \/ DlSendChange

NextDownloader ==
    \/ DownloaderNext
    \/ Cancel
    \/ DownstreamRecv
    \/ DownstreamExit

SpecDownloader == Init /\ [][NextDownloader]_vars

\* The steps the download loop takes by itself once polled: it finishes a
\* send and the arm it is in.
DlResumes ==
    \/ DlSendStarted
    \/ DlSendIngested
    \/ DlSendChange
    \/ DlOtherChangeIgnored

\* The fetch in flight completes, with a block or with an error.
DlFetchCompletes ==
    \/ DlDownloadDone
    \/ DlDownloadFailed

\* The same, scheduled: the task is polled while it can make a step, a
\* fetch completes, the consumer keeps receiving while it is there, and
\* select! takes a branch that is ready again and again.
SpecDownloaderFair ==
    /\ Init
    /\ [][NextDownloader]_vars
    /\ WF_vars(DlResumes)
    /\ WF_vars(DlFetchCompletes)
    /\ WF_vars(DownstreamRecv)
    /\ SF_vars(DlCancelled)

\* The download loop with a token that is never cancelled, fetches that
\* complete with a block, a chain tracker that sends Initialize, NewHead and
\* NewFinalized, and a consumer that stays and keeps receiving.
NextDownloaderLive ==
    \/ DlInitialize
    \/ DlSendStarted
    \/ DlDownloadDone
    \/ DlSendIngested
    \/ DlNewHead
    \/ DlNewFinalized
    \/ DlSendChange
    \/ DownstreamRecv

\* Scheduled: the task finishes the send it is in, the consumer receives,
\* and select! takes the branch of the fetch, ready again and again,
\* however many chain changes arrive in between.
SpecDownloaderLive ==
    /\ Init
    /\ [][NextDownloaderLive]_vars
    /\ WF_vars(DlSendStarted \/ DlSendIngested \/ DlSendChange)
    /\ WF_vars(DownstreamRecv)
    /\ SF_vars(DlDownloadDone)

\* ------------------------------------------------------------------------
\* Segmenter: SegmenterService::segmenter_loop and Worker
\* ------------------------------------------------------------------------

cursors == segment[1].cursors

\* A sequence without its first element's channel slot.
Pop(q) == SubSeq(q, 2, Len(q))

\* The sender side of block_events is dropped once the downloader returned.
StreamEnded == block_events = <<>> /\ dl_terminated

\* tx.send(change).await on the SnapshotChange channel.
SnapshotSendCloses == snapshot_rx_closed
SnapshotSendFits == ~snapshot_rx_closed /\ Len(snapshot_changes) < QueueCap

\* The first event of the ingestion stream (segmenter.rs:88-101).
SegAwaitStarted ==
    /\ seg_pc = "await_started"
    /\ \/ /\ StreamEnded
          /\ seg_pc' = "fatal"
          /\ UNCHANGED <<block_events, finalized>>
       \/ /\ block_events # <<>>
          /\ block_events' = Pop(block_events)
          /\ IF Head(block_events).type = "Started"
             THEN /\ finalized' = Head(block_events).number
                  /\ seg_pc' = "send_started"
             ELSE /\ seg_pc' = "fatal"
                  /\ UNCHANGED finalized
    /\ UNCHANGED client_vars
    /\ UNCHANGED seg_hist
    /\ UNCHANGED <<env_vars, dl_vars, snapshot, segment, crossing, durable_segments,
                   durable_groups, published, snapshot_changes, snapshot_rx_closed>>

\* SnapshotChange::Started(starting_snapshot.clone()) (segmenter.rs:104).
StartedChange_revised ==
    [type |-> "Started", snapshot |-> [snapshot EXCEPT !.revision = @ + 1]]
StartedChange == [type |-> "Started", snapshot |-> snapshot]

\* tx.send(SnapshotChange::Started(..)).await (segmenter.rs:103-108).
SegSendStarted ==
    /\ seg_pc = "send_started"
    /\ \/ /\ SnapshotSendCloses
          /\ seg_pc' = "ok"
          /\ UNCHANGED <<snapshot_changes, seg_hist>>
       \/ /\ SnapshotSendFits
          /\ snapshot_changes' = Append(snapshot_changes, StartedChange)
          /\ first_change' = IF first_change = "None"
                             THEN Last(snapshot_changes').type ELSE first_change
          /\ started_changes' = IF Last(snapshot_changes').type = "Started"
                                THEN started_changes + 1 ELSE started_changes
          /\ seg_pc' = "select"
    /\ UNCHANGED client_vars
    /\ UNCHANGED <<env_vars, dl_vars, block_events, snapshot, finalized, segment,
                   crossing, durable_segments, durable_groups, published,
                   snapshot_rx_closed>>

\* select!: ct.cancelled() => break (segmenter.rs:121).
SegCancelled ==
    /\ seg_pc = "select"
    /\ ct
    /\ seg_pc' = "ok"
    /\ UNCHANGED client_vars
    /\ UNCHANGED seg_hist
    /\ UNCHANGED <<env_vars, dl_vars, block_events, snapshot, finalized, segment,
                   crossing, durable_segments, durable_groups, published,
                   snapshot_changes, snapshot_rx_closed>>

\* select!: the ingestion stream ended (segmenter.rs:123-126).
SegStreamEnded ==
    /\ seg_pc = "select"
    /\ StreamEnded
    /\ seg_pc' = "fatal"
    /\ UNCHANGED client_vars
    /\ UNCHANGED seg_hist
    /\ UNCHANGED <<env_vars, dl_vars, block_events, snapshot, finalized, segment,
                   crossing, durable_segments, durable_groups, published,
                   snapshot_changes, snapshot_rx_closed>>

\* if cursor.number >= finalized_segment_start: the pushed cursor is in the
\* segment of the finalized cursor or after it (segmenter.rs:168-175).
ReturnsEarly_always(number, f) == TRUE
ReturnsEarly_never(number, f) == FALSE
ReturnsEarly(number, f) == number >= segment_start(f)

\* Worker::handle_event up to its first suspension point (segmenter.rs:142-205).
SegHandleEvent ==
    /\ seg_pc = "select"
    /\ block_events # <<>>
    /\ block_events' = Pop(block_events)
    /\ LET event == Head(block_events) IN
       CASE event.type = "Ingested" ->
              IF segment = <<>>
              THEN /\ segment' = <<[group_start |-> event.number,
                                    cursors |-> <<event.number>>]>>
                   /\ seg_pc' = "send_block_ingested"
                   /\ UNCHANGED finalized
              ELSE /\ segment' = <<[segment[1] EXCEPT
                                       !.cursors = Append(@, event.number)]>>
                   /\ seg_pc' = IF ReturnsEarly(event.number, finalized)
                                THEN "send_block_ingested"
                                ELSE "seal"
                   /\ UNCHANGED finalized
         [] event.type = "Finalized" ->
              /\ finalized' = event.number
              /\ seg_pc' = "seal"
              /\ UNCHANGED segment
         [] event.type = "Invalidate" ->
              /\ seg_pc' = "todo"
              /\ UNCHANGED <<finalized, segment>>
         [] OTHER ->
              /\ seg_pc' = "fatal"
              /\ UNCHANGED <<finalized, segment>>
    /\ UNCHANGED client_vars
    /\ UNCHANGED seg_hist
    /\ UNCHANGED <<env_vars, dl_vars, snapshot, crossing, durable_segments,
                   durable_groups, published, snapshot_changes, snapshot_rx_closed>>

\* tx.send(SnapshotChange::BlockIngested(..)).await; a closed channel reaches
\* todo!() (segmenter.rs:154-162, 176-184).
SegSendBlockIngested ==
    /\ seg_pc = "send_block_ingested"
    /\ \/ /\ SnapshotSendCloses
          /\ seg_pc' = "todo"
          /\ UNCHANGED <<snapshot_changes, seg_hist>>
       \/ /\ SnapshotSendFits
          /\ snapshot_changes' = Append(snapshot_changes,
                [type |-> "BlockIngested", cursor |-> Last(cursors)])
          /\ first_change' = IF first_change = "None"
                             THEN Last(snapshot_changes').type ELSE first_change
          /\ started_changes' = IF Last(snapshot_changes').type = "Started"
                                THEN started_changes + 1 ELSE started_changes
          /\ seg_pc' = "select"
    /\ UNCHANGED client_vars
    /\ UNCHANGED <<env_vars, dl_vars, block_events, snapshot, finalized, segment,
                   crossing, durable_segments, durable_groups, published,
                   snapshot_rx_closed>>

\* do_write_segment_if_needed: the early returns (segmenter.rs:236-266).
CanSeal_unfinalized ==
    /\ segment # <<>>
    /\ Len(cursors) >= segment_size

CanSeal ==
    /\ segment # <<>>
    /\ Len(cursors) >= segment_size
    /\ cursors[segment_size] <= finalized

\* The partition of the buffered cursors (segmenter.rs:268-284).
next_segment_start == segment_start(cursors[segment_size] + 1)
cursors_to_segment == SelectSeq(cursors, LAMBDA c : c < next_segment_start)
cursors_to_keep == SelectSeq(cursors, LAMBDA c : c >= next_segment_start)
current_segment_start == segment_start(cursors[1])

\* The group boundary test (segmenter.rs:286-295, 331).
current_group_start == segment_group_start(segment[1].group_start)
next_group_start == segment_group_start(Last(cursors_to_segment) + 1)

\* snapshot.revision += 1; extra_segment_count += 1 (segmenter.rs:328-329).
CountSegment_norevision(s) ==
    [s EXCEPT !.extra_segment_count = @ + 1]
CountSegment(s) ==
    [s EXCEPT !.revision = @ + 1, !.extra_segment_count = @ + 1]

\* group_count += 1; extra_segment_count = 0 (segmenter.rs:340-341).
CountGroup_noreset(s) ==
    [s EXCEPT !.group_count = @ + 1]
CountGroup(s) ==
    [s EXCEPT !.group_count = @ + 1, !.extra_segment_count = 0]

\* The records the segment builder holds: one per staged block read
\* (segmenter.rs:301-316).
header_count == Len(cursors_to_segment)

\* do_write_segment_if_needed returns Ok(false) (segmenter.rs:236-266);
\* write_segment_if_needed leaves its loop.
SegSealNothing ==
    /\ seg_pc = "seal"
    /\ ~CanSeal
    /\ seg_pc' = "select"
    /\ UNCHANGED client_vars
    /\ UNCHANGED seg_hist
    /\ UNCHANGED <<env_vars, dl_vars, block_events, snapshot, finalized, segment,
                   crossing, durable_segments, durable_groups, published,
                   snapshot_changes, snapshot_rx_closed>>

\* assert_eq!(header_count, segment_size) fails (segmenter.rs:318).
SegSealAssertFails ==
    /\ seg_pc = "seal"
    /\ CanSeal
    /\ cursors_to_segment # <<>>
    /\ \A i \in 1..Len(cursors_to_segment) : cursors_to_segment[i] \in staged
    /\ header_count # segment_size
    /\ segment' = <<[segment[1] EXCEPT !.cursors = cursors_to_keep]>>
    /\ seg_pc' = "assert_failed"
    /\ UNCHANGED client_vars
    /\ UNCHANGED seg_hist
    /\ UNCHANGED <<env_vars, dl_vars, block_events, snapshot, finalized, crossing,
                   durable_segments, durable_groups, published, snapshot_changes,
                   snapshot_rx_closed>>

\* Where the `?` of a failed read or write takes the worker: out of
\* do_write_segment_if_needed, write_segment_if_needed, handle_event and
\* segmenter_loop with the error (segmenter.rs:302, 304-310, 320-322, 209,
\* 122-124).
SealErrorExit_swallowed == "select"
SealErrorExit == "error"

\* Reading a staged block or writing the segment fails with Io
\* (segmenter.rs:304-312, 320-322).
SegSealIoError ==
    /\ seg_pc = "seal"
    /\ CanSeal
    /\ segment' = <<[segment[1] EXCEPT !.cursors = cursors_to_keep]>>
    /\ seg_pc' = SealErrorExit
    /\ UNCHANGED client_vars
    /\ UNCHANGED seg_hist
    /\ UNCHANGED <<env_vars, dl_vars, block_events, snapshot, finalized, crossing,
                   durable_segments, durable_groups, published, snapshot_changes,
                   snapshot_rx_closed>>

\* The segment is built and written, the in-memory snapshot is updated
\* (segmenter.rs:268-341).
SegSealWrite ==
    /\ seg_pc = "seal"
    /\ CanSeal
    /\ cursors_to_segment # <<>>
    /\ \A i \in 1..Len(cursors_to_segment) : cursors_to_segment[i] \in staged
    /\ header_count = segment_size
    /\ durable_segments' = durable_segments \cup
            {[start |-> current_segment_start, records |-> cursors_to_segment]}
    /\ segment' = <<[segment[1] EXCEPT !.cursors = cursors_to_keep]>>
    /\ crossing' = (current_group_start # next_group_start)
    /\ snapshot' = IF crossing' THEN CountGroup(CountSegment(snapshot))
                               ELSE CountSegment(snapshot)
    /\ seg_pc' = "write_snapshot"
    /\ UNCHANGED client_vars
    /\ UNCHANGED seg_hist
    /\ UNCHANGED <<env_vars, dl_vars, block_events, finalized, durable_groups,
                   published, snapshot_changes, snapshot_rx_closed>>

\* Worker::write_snapshot succeeds (segmenter.rs:349-369); after a group
\* boundary the in-progress segment is cleared (segmenter.rs:345).
SegWriteSnapshot ==
    /\ seg_pc = "write_snapshot"
    /\ published' = Append(published, snapshot)
    /\ segment' = IF crossing THEN <<>> ELSE segment
    /\ seg_pc' = "send_state_changed"
    /\ UNCHANGED client_vars
    /\ UNCHANGED seg_hist
    /\ UNCHANGED <<env_vars, dl_vars, block_events, snapshot, finalized, crossing,
                   durable_segments, durable_groups, snapshot_changes,
                   snapshot_rx_closed>>

\* Worker::write_snapshot fails with Io (segmenter.rs:350-366).
SegWriteSnapshotFails ==
    /\ seg_pc = "write_snapshot"
    /\ seg_pc' = "error"
    /\ UNCHANGED client_vars
    /\ UNCHANGED seg_hist
    /\ UNCHANGED <<env_vars, dl_vars, block_events, snapshot, finalized, segment,
                   crossing, durable_segments, durable_groups, published,
                   snapshot_changes, snapshot_rx_closed>>

\* SnapshotChange::StateChanged { new_state: self.snapshot.ingestion.clone(),
\* finalized: self.finalized.clone() } (segmenter.rs:210-216).
StateChanged_starting(s, f) ==
    [type |-> "StateChanged",
     group_count |-> starting_snapshot.group_count,
     extra_segment_count |-> starting_snapshot.extra_segment_count,
     finalized |-> f]
StateChanged(s, f) ==
    [type |-> "StateChanged",
     group_count |-> s.group_count,
     extra_segment_count |-> s.extra_segment_count,
     finalized |-> f]

\* tx.send(SnapshotChange::StateChanged{..}).await in the seal loop; a closed
\* channel reaches todo!() (segmenter.rs:209-221).
SegSendStateChanged ==
    /\ seg_pc = "send_state_changed"
    /\ \/ /\ SnapshotSendCloses
          /\ seg_pc' = "todo"
          /\ UNCHANGED <<snapshot_changes, seg_hist>>
       \/ /\ SnapshotSendFits
          /\ snapshot_changes' = Append(snapshot_changes,
                                      StateChanged(snapshot, finalized))
          /\ first_change' = IF first_change = "None"
                             THEN Last(snapshot_changes').type ELSE first_change
          /\ started_changes' = IF Last(snapshot_changes').type = "Started"
                                THEN started_changes + 1 ELSE started_changes
          /\ seg_pc' = "seal"
    /\ UNCHANGED client_vars
    /\ UNCHANGED <<env_vars, dl_vars, block_events, snapshot, finalized, segment,
                   crossing, durable_segments, durable_groups, published,
                   snapshot_rx_closed>>

\* The consumer of the SnapshotChange stream takes the next change.
ConsumerRecv ==
    /\ snapshot_changes # <<>>
    /\ ~snapshot_rx_closed
    /\ snapshot_changes' = Pop(snapshot_changes)
    /\ UNCHANGED client_vars
    /\ UNCHANGED <<env_vars, dl_vars, block_events, seg_vars, snapshot_rx_closed>>

\* The consumer drops the SnapshotChange stream.
ConsumerDrop ==
    /\ ~snapshot_rx_closed
    /\ snapshot_rx_closed' = TRUE
    /\ UNCHANGED client_vars
    /\ UNCHANGED <<env_vars, dl_vars, block_events, seg_vars, snapshot_changes>>

\* The producer of the BlockEvent stream, seen from the segmenter: what
\* download_loop sends, in the order it sends it.
\* Started{finalized}, with finalized.number >= first_block_number
\* (downloader.rs:113-137).
UpstreamStarted ==
    /\ dl_pc = "await_init"
    /\ \E f \in first_block_number..MaxBlock :
        block_events' = Append(block_events, Event("Started", f))
    /\ dl_pc' = "select"
    /\ UNCHANGED client_vars
    /\ UNCHANGED dl_hist
    /\ UNCHANGED <<env_vars, head, current_block_number, is_downloading,
                   download_fut, dl_event, fetch_log, ingested_log, seg_vars,
                   snapshot_changes, snapshot_rx_closed>>

\* The block numbers download_loop can fetch next: the first fetch is at
\* first_block_number (downloader.rs:119-125) or, when the run started idle,
\* one past it (downloader.rs:165-167); every later one is one past the
\* previous (downloader.rs:149-151).
UpstreamNextBlocks ==
    IF ingested_log = <<>>
    THEN {first_block_number, first_block_number + 1}
    ELSE {Last(ingested_log) + 1}

\* Ingested(cursor), after download_block staged the block
\* (downloader.rs:142-147, 247-255).
UpstreamIngested ==
    /\ dl_pc = "select"
    /\ SendFits
    /\ \E n \in UpstreamNextBlocks \cap Blocks :
        /\ staged' = staged \cup {n}
        /\ block_events' = Append(block_events, Event("Ingested", n))
        /\ ingested_log' = Append(ingested_log, n)
    /\ UNCHANGED client_vars
    /\ UNCHANGED dl_hist
    /\ UNCHANGED <<tracker_finalized, segment_options, first_block_number, ct, dl_pc, head, current_block_number,
                   is_downloading, download_fut, dl_event, fetch_log, seg_vars,
                   snapshot_changes, snapshot_rx_closed>>

\* Finalized(cursor), forwarded from NewFinalized (downloader.rs:171-175).
UpstreamFinalized ==
    /\ dl_pc = "select"
    /\ SendFits
    /\ \E f \in Blocks :
        block_events' = Append(block_events, Event("Finalized", f))
    /\ UNCHANGED client_vars
    /\ UNCHANGED <<env_vars, dl_vars, seg_vars, snapshot_changes,
                   snapshot_rx_closed>>

\* Invalidate, forwarded (downloader.rs:176-180).
UpstreamInvalidate ==
    /\ dl_pc = "select"
    /\ SendFits
    /\ block_events' = Append(block_events, Event("Invalidate", 0))
    /\ UNCHANGED client_vars
    /\ UNCHANGED <<env_vars, dl_vars, seg_vars, snapshot_changes,
                   snapshot_rx_closed>>

\* A producer other than download_loop: its first event is not Started.
UpstreamUnexpectedFirst ==
    /\ dl_pc = "await_init"
    /\ \E e \in {Event("Ingested", first_block_number),
                  Event("Finalized", first_block_number),
                  Event("Invalidate", 0)} :
        block_events' = Append(block_events, e)
    /\ dl_pc' = "select"
    /\ UNCHANGED client_vars
    /\ UNCHANGED dl_hist
    /\ UNCHANGED <<env_vars, head, current_block_number, is_downloading,
                   download_fut, dl_event, fetch_log, ingested_log, seg_vars,
                   snapshot_changes, snapshot_rx_closed>>

\* The producer returns before its first event, dropping the sender
\* (downloader.rs:100-116).
UpstreamEndsEmpty ==
    /\ dl_pc = "await_init"
    /\ dl_pc' = "fatal"
    /\ dl_exit' = "expected chain initialization"
    /\ UNCHANGED <<dl_finalized, first_sent, started_sent>>
    /\ UNCHANGED client_vars
    /\ UNCHANGED <<env_vars, head, current_block_number, is_downloading,
                   download_fut, dl_event, fetch_log, ingested_log, block_events,
                   seg_vars, snapshot_changes, snapshot_rx_closed>>

\* download_loop returns, dropping the sender (downloader.rs:101-187).
UpstreamExit ==
    /\ ~dl_terminated
    /\ dl_pc' = "ok"
    /\ dl_exit' = "cancelled"
    /\ UNCHANGED <<dl_finalized, first_sent, started_sent>>
    /\ UNCHANGED client_vars
    /\ UNCHANGED <<env_vars, head, current_block_number, is_downloading,
                   download_fut, dl_event, fetch_log, ingested_log, block_events,
                   seg_vars, snapshot_changes, snapshot_rx_closed>>

NextSegmenter ==
    \/ SegAwaitStarted
    \/ SegSendStarted
    \/ SegHandleEvent
    \/ SegSendBlockIngested
    \/ SegSealNothing
    \/ SegSealAssertFails
    \/ SegSealIoError
    \/ SegSealWrite
    \/ SegWriteSnapshot
    \/ SegWriteSnapshotFails
    \/ SegSendStateChanged
    \/ UpstreamStarted
    \/ UpstreamIngested
    \/ UpstreamFinalized
    \/ UpstreamInvalidate
    \/ ConsumerRecv

NextSegmenterShutdown ==
    \/ NextSegmenter
    \/ SegCancelled
    \/ SegStreamEnded
    \/ UpstreamExit
    \/ Cancel
    \/ ConsumerDrop

NextSegmenterAnyStream ==
    \/ NextSegmenter
    \/ UpstreamUnexpectedFirst
    \/ UpstreamEndsEmpty

\* The segmenter fed by a stream of BlockEvents with any first event, or
\* with none.
SpecSegmenterAnyStream == Init /\ [][NextSegmenterAnyStream]_vars

\* The segmenter fed by its upstream while both ends of the pipeline stay up.
SpecSegmenter == Init /\ [][NextSegmenter]_vars

\* The steps of the segmenter task.
SegmenterStep ==
    \/ SegAwaitStarted
    \/ SegSendStarted
    \/ SegHandleEvent
    \/ SegSendBlockIngested
    \/ SegSealNothing
    \/ SegSealAssertFails
    \/ SegSealIoError
    \/ SegSealWrite
    \/ SegWriteSnapshot
    \/ SegWriteSnapshotFails
    \/ SegSendStateChanged

\* The same, with the segmenter task polled for as long as it can make a
\* step and a consumer that keeps receiving.
SpecSegmenterFair ==
    /\ Init
    /\ [][NextSegmenter]_vars
    /\ WF_vars(SegmenterStep)
    /\ WF_vars(ConsumerRecv)

\* The same with cancellation and the peers going away.
SpecSegmenterShutdown == Init /\ [][NextSegmenterShutdown]_vars

\* ------------------------------------------------------------------------
\* End-to-end scenario 1: the downloader and the segmenter run together on
\* one chain: Initialize{head: 10, finalized: 10}, then NewHead(12), with
\* first_block_number = 0, segments of 4 blocks and groups of 16 blocks.
\* Storage and both channels stay up, nothing is cancelled.
\* ------------------------------------------------------------------------
Scenario1 ==
    [first_block_number |-> 0,
     segment_options |-> [segment_size |-> 4, group_size |-> 16],
     head |-> 10, finalized |-> 10, new_head |-> 12]

InitScenario1 ==
    InitWith(Scenario1.segment_options, {Scenario1.first_block_number})

\* The chain changes stream carries Initialize, then one NewHead.
Scenario1Initialize ==
    /\ DlInitializeWith(Scenario1.head, Scenario1.finalized)
    /\ UNCHANGED tracker_finalized
Scenario1NewHead ==
    /\ head = Scenario1.head
    /\ DlNewHeadWith(Scenario1.new_head)

NextScenario1 ==
    \/ Scenario1Initialize
    \/ Scenario1NewHead
    \/ DlSendStarted
    \/ DlDownloadDone
    \/ DlSendIngested
    \/ SegAwaitStarted
    \/ SegSendStarted
    \/ SegHandleEvent
    \/ SegSendBlockIngested
    \/ SegSealNothing
    \/ SegSealWrite
    \/ SegWriteSnapshot
    \/ SegSendStateChanged
    \/ ConsumerRecv

\* Both tasks are polled by the runtime for as long as they can make a step.
SpecScenario1 ==
    InitScenario1 /\ [][NextScenario1]_vars /\ WF_vars(NextScenario1)

\* ------------------------------------------------------------------------
\* End-to-end scenario 2: Initialize{head: 4, finalized: 4} with
\* first_block_number = 0 and segments of 4 blocks; once the blocks 0..=4
\* are ingested, NewFinalized(7).
\* ------------------------------------------------------------------------
Scenario2 ==
    [first_block_number |-> 0,
     segment_options |-> [segment_size |-> 4, group_size |-> 16],
     head |-> 4, finalized |-> 4, new_finalized |-> 7]

InitScenario2 ==
    InitWith(Scenario2.segment_options, {Scenario2.first_block_number})

Scenario2Initialize ==
    /\ DlInitializeWith(Scenario2.head, Scenario2.finalized)
    /\ UNCHANGED tracker_finalized

\* NewFinalized(7) has been taken from the chain changes stream.
Scenario2Driven ==
    \/ dl_event.type = "Finalized"
    \/ \E i \in 1..Len(block_events) : block_events[i].type = "Finalized"
    \/ finalized = Scenario2.new_finalized

\* The chain changes stream carries NewFinalized(7) once Ingested was sent
\* for every block up to the head.
Scenario2NewFinalized ==
    /\ ~Scenario2Driven
    /\ Len(ingested_log) = Scenario2.head + 1 - Scenario2.first_block_number
    /\ DlNewFinalizedWith(Scenario2.new_finalized)
    /\ UNCHANGED tracker_finalized

NextScenario2 ==
    \/ Scenario2Initialize
    \/ Scenario2NewFinalized
    \/ DlSendStarted
    \/ DlDownloadDone
    \/ DlSendIngested
    \/ DlSendChange
    \/ SegAwaitStarted
    \/ SegSendStarted
    \/ SegHandleEvent
    \/ SegSendBlockIngested
    \/ SegSealNothing
    \/ SegSealWrite
    \/ SegWriteSnapshot
    \/ SegSendStateChanged
    \/ ConsumerRecv

SpecScenario2 ==
    InitScenario2 /\ [][NextScenario2]_vars /\ WF_vars(NextScenario2)

\* ------------------------------------------------------------------------
\* The pipeline with the finalized cursor of its chain tracker: downloader
\* and segmenter run together from block 0 on a chain whose head is the one
\* of Initialize; the tracker reports finalized cursors, in any order;
\* storage and both channels stay up.
\* ------------------------------------------------------------------------

\* The numbers of the finalized cursors in the events of a queue, in order.
FinalizedNumbers(q) ==
    LET carrying == SelectSeq(q, LAMBDA e : e.type \in {"Started", "Finalized"})
    IN  [i \in 1..Len(carrying) |-> carrying[i].number]

\* The finalized cursors on their way through the pipeline, oldest first:
\* the one the segmenter holds, the ones queued, the one being sent.
FinalizedInFlight ==
    (IF seg_pc = "await_started" THEN <<>> ELSE <<finalized>>)
        \o FinalizedNumbers(block_events)
        \o FinalizedNumbers(<<dl_event>>)

Reported == 0..MaxReported

\* Initialize{head, finalized} from the tracker.
TrackerInitialize ==
    \E h \in Reported, f \in Reported :
        /\ DlInitializeWith(h, f)
        /\ tracker_finalized' = f

\* NewHead(h) from the tracker.
TrackerNewHead == \E h \in Reported : DlNewHeadWith(h)

\* NewFinalized(f) from the tracker.
TrackerNewFinalized ==
    \E f \in Reported :
        /\ DlNewFinalizedWith(f)
        /\ tracker_finalized' = f

NextTracked ==
    \/ TrackerInitialize
    \/ TrackerNewFinalized
    \/ TrackerNewHead
    \/ DlSendStarted
    \/ DlDownloadDone
    \/ DlSendIngested
    \/ DlSendChange
    \/ SegAwaitStarted
    \/ SegSendStarted
    \/ SegHandleEvent
    \/ SegSendBlockIngested
    \/ SegSealNothing
    \/ SegSealAssertFails
    \/ SegSealWrite
    \/ SegWriteSnapshot
    \/ SegSendStateChanged
    \/ ConsumerRecv

SpecTracked == InitWith(ModelSegmentOptions, {0}) /\ [][NextTracked]_vars

\* ------------------------------------------------------------------------
\* Data stream client: DataStream::poll_next, with the server it talks to
\* ------------------------------------------------------------------------

pipeline_vars == <<env_vars, dl_vars, block_events, seg_vars, snapshot_changes,
                   snapshot_rx_closed>>

Response(id, kind) == [stream_id |-> id, kind |-> kind]

\* response.stream_id != *this.stream_id (lib.rs:266).
StaleResponse_never(response_id, id) == FALSE
StaleResponse(response_id, id) == response_id # id

\* match response.message (lib.rs:271-302): Data and Invalidate are yielded;
\* None and Heartbeat wake the task and return Pending.
MessageOutcome_all_yielded(kind) == "yielded"
MessageOutcome(kind) ==
    IF kind \in {"Data", "Invalidate"} THEN "yielded" ELSE "absorbed"

\* What poll_next does with a response taken from the inner stream
\* (lib.rs:259-304).
PollOutcome(response, id) ==
    IF response.kind \in {"Elapsed", "Status"} THEN "error"
    ELSE IF StaleResponse(response.stream_id, id) THEN "dropped"
    ELSE MessageOutcome(response.kind)

\* inner_tx.try_send(request) (lib.rs:250-252): fails on a full queue and
\* on a queue whose receiver was dropped.
TrySendFits_unbounded == ~inner_rx_dropped
TrySendFits == Len(requests) < QueueCap /\ ~inner_rx_dropped

\* this.configuration_stream.poll_next(cx) is Poll::Pending (lib.rs:238,
\* 256): nothing is ready and the stream has not ended.
ConfigurationPending_unended == configuration_stream.ready = 0
ConfigurationPending ==
    configuration_stream.ready = 0 /\ ~configuration_stream.ended

\* The caller's configuration stream has another configuration ready.
ConfigurationArrives ==
    /\ ~configuration_stream.ended
    /\ configuration_stream.ready = 0
    /\ stream_id < MaxConfigurations
    /\ configuration_stream' = [configuration_stream EXCEPT !.ready = 1]
    /\ UNCHANGED <<inner_rx_dropped, stream_id, stream_ended, requests,
                   server_ids, responses, last_forwarded, configured, polled,
                   dropped_ids, pipeline_vars>>

\* The caller's configuration stream ends; what is ready is still taken.
ConfigurationStreamEnds ==
    /\ ~configuration_stream.ended
    /\ configuration_stream' = [configuration_stream EXCEPT !.ended = TRUE]
    /\ UNCHANGED <<inner_rx_dropped, stream_id, stream_ended, requests,
                   server_ids, responses, last_forwarded, configured, polled,
                   dropped_ids, pipeline_vars>>

\* poll_next: the configuration stream is Ready(Some(configuration))
\* (lib.rs:240-255).
ClientConfigure ==
    /\ stream_ended = "no"
    /\ configuration_stream.ready > 0
    /\ configuration_stream' = [configuration_stream EXCEPT !.ready = 0]
    /\ stream_id' = stream_id + 1
    /\ IF TrySendFits
       THEN /\ requests' = Append(requests, stream_id')
            /\ last_forwarded' = stream_id'
            /\ configured' = [stream_id |-> stream_id', outcome |-> "pending"]
       ELSE /\ configured' = [stream_id |-> stream_id', outcome |-> "error"]
            /\ UNCHANGED <<requests, last_forwarded>>
    /\ UNCHANGED <<inner_rx_dropped, stream_ended, server_ids, responses, polled,
                   dropped_ids, pipeline_vars>>

\* poll_next: the configuration stream is Ready(None) (lib.rs:239).
ClientConfigurationEnded ==
    /\ stream_ended = "no"
    /\ configuration_stream.ready = 0
    /\ configuration_stream.ended
    /\ stream_ended' = "configuration"
    /\ UNCHANGED <<configuration_stream, inner_rx_dropped, stream_id, requests,
                   server_ids, responses, last_forwarded, configured, polled,
                   dropped_ids, pipeline_vars>>

\* poll_next: the configuration stream is Pending and the inner stream is
\* Ready(Some(..)) (lib.rs:256-304).
ClientPollResponse ==
    /\ stream_ended = "no"
    /\ ConfigurationPending
    /\ responses # <<>>
    /\ Head(responses).kind # "End"
    /\ responses' = Tail(responses)
    /\ polled' = [stream_id |-> Head(responses).stream_id,
                  kind |-> Head(responses).kind,
                  forwarded |-> last_forwarded,
                  outcome |-> PollOutcome(Head(responses), stream_id)]
    /\ dropped_ids' = IF polled'.outcome = "dropped"
                      THEN dropped_ids \cup {polled'.stream_id}
                      ELSE dropped_ids
    /\ UNCHANGED <<configuration_stream, inner_rx_dropped, stream_id,
                   stream_ended, requests, server_ids, last_forwarded,
                   configured, pipeline_vars>>

\* poll_next: the configuration stream is Pending and the inner stream is
\* Ready(None) (lib.rs:260).
ClientInnerEnded ==
    /\ stream_ended = "no"
    /\ ConfigurationPending
    /\ responses # <<>>
    /\ Head(responses).kind = "End"
    /\ stream_ended' = "inner"
    /\ UNCHANGED <<configuration_stream, inner_rx_dropped, stream_id, requests,
                   server_ids, responses, last_forwarded, configured, polled,
                   dropped_ids, pipeline_vars>>

\* The server takes the next request from the request stream.
ServerRecv ==
    /\ ~inner_rx_dropped
    /\ requests # <<>>
    /\ requests' = Tail(requests)
    /\ server_ids' = server_ids \cup {Head(requests)}
    /\ UNCHANGED <<configuration_stream, inner_rx_dropped, stream_id,
                   stream_ended, responses, last_forwarded, configured, polled,
                   dropped_ids, pipeline_vars>>

\* The server side drops the request stream (the receiver of inner_tx).
ServerDropsRequests ==
    /\ ~inner_rx_dropped
    /\ inner_rx_dropped' = TRUE
    /\ UNCHANGED <<configuration_stream, stream_id, stream_ended, requests,
                   server_ids, responses, last_forwarded, configured, polled,
                   dropped_ids, pipeline_vars>>

ResponsesOpen ==
    /\ Len(responses) < MaxInFlight
    /\ IF responses = <<>> THEN TRUE ELSE Last(responses).kind # "End"

\* The server answers a request it has received: a message tagged with that
\* request's stream id.
ServerRespond ==
    /\ ResponsesOpen
    /\ \E id \in server_ids :
       \E kind \in {"Data", "Invalidate", "Heartbeat", "Empty"} :
          responses' = Append(responses, Response(id, kind))
    /\ UNCHANGED <<configuration_stream, inner_rx_dropped, stream_id,
                   stream_ended, requests, server_ids, last_forwarded,
                   configured, polled, dropped_ids, pipeline_vars>>

\* The inner stream yields an error: the server's status, or the timeout of
\* an idle stream (lib.rs:201, 262-264).
ServerFails ==
    /\ ResponsesOpen
    /\ \E kind \in {"Status", "Elapsed"} :
          responses' = Append(responses, Response(0, kind))
    /\ UNCHANGED <<configuration_stream, inner_rx_dropped, stream_id,
                   stream_ended, requests, server_ids, last_forwarded,
                   configured, polled, dropped_ids, pipeline_vars>>

\* The server ends the response stream.
ServerEnds ==
    /\ ResponsesOpen
    /\ responses' = Append(responses, Response(0, "End"))
    /\ UNCHANGED <<configuration_stream, inner_rx_dropped, stream_id,
                   stream_ended, requests, server_ids, last_forwarded,
                   configured, polled, dropped_ids, pipeline_vars>>

NextClient ==
    \/ ConfigurationArrives
    \/ ConfigurationStreamEnds
    \/ ServerDropsRequests
    \/ ClientConfigure
    \/ ClientConfigurationEnded
    \/ ClientPollResponse
    \/ ClientInnerEnded
    \/ ServerRecv
    \/ ServerRespond
    \/ ServerFails
    \/ ServerEnds

SpecClient == Init /\ [][NextClient]_vars

\* ------------------------------------------------------------------------
\* Properties of the block downloader (checked under SpecDownloader)
\* ------------------------------------------------------------------------

StrictlyIncreasing(s) == \A i \in 1..Len(s) : \A j \in 1..Len(s) : i < j => s[i] < s[j]

\* C1: the Ingested events of a run are contiguous from first_block_number:
\* the i-th Ingested event carries block number first_block_number + i - 1.
IngestedContiguousFromFirst ==
    \A i \in 1..Len(ingested_log) : ingested_log[i] = first_block_number + i - 1

\* C2: within a run the block numbers fetched, and the block numbers emitted
\* as Ingested, are strictly increasing: none is fetched or emitted twice,
\* whatever heads are received; each Ingested event carries a fetched number.
FetchedOnceInOrder ==
    /\ StrictlyIncreasing(fetch_log)
    /\ StrictlyIncreasing(ingested_log)
    /\ Len(ingested_log) <= Len(fetch_log)
    /\ \A i \in 1..Len(ingested_log) : ingested_log[i] = fetch_log[i]

\* C2 witness: three blocks were fetched, two of them emitted, and a NewHead
\* below the current block was received while a fetch is in flight.
FetchedOnceInOrderWitness ==
    /\ Len(fetch_log) >= 3
    /\ Len(ingested_log) >= 2
    /\ head < current_block_number
    /\ download_fut = {current_block_number}

\* What the segmenter's upstream stands for: the downloader delivers Ingested
\* numbers that are contiguous, starting at first_block_number or one past it.
DownloaderDelivers ==
    /\ ingested_log # <<>> =>
          ingested_log[1] \in {first_block_number, first_block_number + 1}
    /\ \A i \in 2..Len(ingested_log) : ingested_log[i] = ingested_log[i - 1] + 1

\* ------------------------------------------------------------------------
\* Properties of the segmenter (checked under SpecSegmenter)
\* ------------------------------------------------------------------------

\* The snapshot document in durable storage.
durable_snapshot == Last(published)

\* The number of segments a snapshot counts.
SegmentsPerGroup == group_size \div segment_size
SegmentCount(s) == s.group_count * SegmentsPerGroup + s.extra_segment_count

\* The starts of the segments written to durable storage.
DurableStarts == {seg.start : seg \in durable_segments}

\* The block records written to durable storage.
DurableRecords == UNION {{seg.records[i] : i \in 1..Len(seg.records)} : seg \in durable_segments}

\* The cursors in the in-progress segment.
Buffered == IF segment = <<>> THEN {} ELSE {cursors[i] : i \in 1..Len(cursors)}

\* C3: every seal writes exactly segment_size block records: whenever the
\* segmenter seals, the assertion header_count == segment_size holds.
SealWritesSegmentSize ==
    /\ (seg_pc = "seal" /\ CanSeal) => header_count = segment_size
    /\ seg_pc # "assert_failed"

\* C4: every segment a durable snapshot counts is in durable storage under
\* its key: in a run started at the beginning of a group, the segments at
\* first_block_number + i * segment_size, for i below the snapshot's segment
\* count.
CountedSegmentsDurable ==
    (first_block_number % group_size = 0 /\ published # <<>>) =>
        \A i \in 0..(SegmentCount(durable_snapshot) - 1) :
            first_block_number + i * segment_size \in DurableStarts

\* C5: a durable snapshot with group_count = g has g group artifacts in
\* durable storage.
CountedGroupsDurable ==
    published # <<>> =>
        Cardinality(durable_groups) >= durable_snapshot.group_count

\* C6: the i-th published snapshot has revision exactly one greater than the
\* one published before it (the starting snapshot's, for the first).
RevisionsIncreaseByOne ==
    \A i \in 1..Len(published) :
        published[i].revision =
            (IF i = 1 THEN starting_snapshot ELSE published[i - 1]).revision + 1

\* C6 witness: two snapshots were published, the second across a group
\* boundary.
RevisionsIncreaseByOneWitness ==
    /\ Len(published) >= 2
    /\ published[2].group_count = 1

ExtraStep(prev, cur) ==
    /\ cur.extra_segment_count = prev.extra_segment_count + 1
    /\ cur.group_count = prev.group_count
GroupStep(prev, cur) ==
    /\ cur.group_count = prev.group_count + 1
    /\ cur.extra_segment_count = 0
LexLess(prev, cur) ==
    \/ prev.group_count < cur.group_count
    \/ /\ prev.group_count = cur.group_count
       /\ prev.extra_segment_count < cur.extra_segment_count

\* C7: between two consecutively published snapshots exactly one of: the
\* extra segment count grew by one with the group count unchanged, or the
\* group count grew by one and the extra segment count is 0; so the pair
\* (group_count, extra_segment_count) grows lexicographically.
ConsecutiveSnapshotsStep ==
    \A i \in 1..Len(published) :
        LET prev == IF i = 1 THEN starting_snapshot ELSE published[i - 1]
            cur == published[i]
        IN /\ ExtraStep(prev, cur) # GroupStep(prev, cur)
           /\ LexLess(prev, cur)

\* C7 witness: a snapshot published after an extra segment, followed by one
\* published after a group boundary with a non-zero count to reset.
ConsecutiveSnapshotsStepWitness ==
    /\ Len(published) >= 2
    /\ ExtraStep(starting_snapshot, published[1])
    /\ GroupStep(published[1], published[2])

\* C8: started from an empty snapshot at a segment-aligned block, every
\* published snapshot has group_count * M + extra_segment_count * N equal to
\* the number of block records written into the published segments.
SnapshotCountsRecords ==
    (/\ first_block_number % segment_size = 0
     /\ published # <<>>
     /\ seg_pc \in {"select", "seal", "send_state_changed"}) =>
        durable_snapshot.group_count * group_size
            + durable_snapshot.extra_segment_count * segment_size
          = Cardinality(DurableRecords)

\* C9: a staged block file exists iff its cursor is in the segmenter's
\* buffer; stated for the cursors the segmenter has taken over, between two
\* events: the staged files of sealed cursors are gone once the snapshot
\* counting them is written.
StagedIffBuffered ==
    seg_pc = "select" =>
        \A n \in Buffered \cup DurableRecords : n \in staged <=> n \in Buffered

\* ------------------------------------------------------------------------
\* Properties of the data stream client (checked under SpecClient)
\* ------------------------------------------------------------------------

Messages == {"Data", "Invalidate", "Heartbeat", "Empty"}

\* C10: every Data or Invalidate message the client yields was carried by a
\* response whose stream_id is the id of the most recently forwarded
\* configuration at that moment, and a response tagged with an older id is
\* dropped: it yields neither a message nor an error.
YieldedFromForwardedStream ==
    /\ polled.outcome = "yielded" =>
          /\ polled.kind \in {"Data", "Invalidate"}
          /\ polled.forwarded > 0
          /\ polled.stream_id = polled.forwarded
    /\ (polled.kind \in Messages /\ polled.stream_id < polled.forwarded) =>
          polled.outcome = "dropped"

\* C10 witness: after a second configuration was forwarded, a response still
\* tagged with the first id was dropped and a Data response tagged with the
\* second was yielded.
YieldedFromForwardedStreamWitness ==
    /\ 1 \in dropped_ids
    /\ polled.kind = "Data"
    /\ polled.stream_id = 2
    /\ polled.forwarded = 2
    /\ polled.outcome = "yielded"

\* C11: a Heartbeat response is never yielded to the caller: taking it yields
\* nothing (neither a message nor an error), and whatever poll_next hands to
\* the caller is a Data message, an Invalidate message or an error.
HeartbeatNeverYielded ==
    /\ polled.kind = "Heartbeat" => polled.outcome \in {"absorbed", "dropped"}
    /\ polled.outcome = "yielded" => polled.kind \in {"Data", "Invalidate"}
    /\ polled.outcome = "error" => polled.kind \in {"Status", "Elapsed"}

\* C11 witness: a Heartbeat tagged with the client's current stream id was
\* taken from the inner stream and absorbed.
HeartbeatNeverYieldedWitness ==
    /\ polled.kind = "Heartbeat"
    /\ polled.stream_id = stream_id
    /\ polled.stream_id = polled.forwarded
    /\ polled.outcome = "absorbed"

\* C12: when the first ChainChange is not Initialize the loop returns a Fatal
\* error and no BlockEvent was ever put on the channel, not even Started;
\* no fetch was started either.
NonInitializeFirstIsFatal ==
    dl_exit = "expected chain initialization" =>
        /\ dl_pc = "fatal"
        /\ first_sent = "None"
        /\ started_sent = 0
        /\ block_events = <<>>
        /\ fetch_log = <<>>

\* C12 witness: the loop has returned because its first message was not
\* Initialize.
NonInitializeFirstIsFatalWitness ==
    /\ dl_exit = "expected chain initialization"
    /\ dl_terminated

\* C13: the step the loop takes after it received a second Initialize ends
\* it with a Fatal error, and puts no BlockEvent on the channel.
SecondInitializeIsFatal ==
    [][(dl_pc = "other_change" /\ dl_pc' # dl_pc) =>
          (dl_pc' = "fatal" /\ first_sent' = first_sent)]_vars

\* The state after Initialize was handled and before Started is sent, or
\* after the finalized check failed.
Initialized == dl_pc = "send_started" \/ dl_exit = "finalized block is behind the starting block"

\* C14: an Initialize whose finalized.number is below first_block_number ends
\* the run with a Fatal error before any BlockEvent is emitted and before any
\* fetch is started; otherwise the run passes the check and Started{finalized}
\* is the event being sent.
FinalizedBehindIsFatal ==
    /\ dl_exit = "finalized block is behind the starting block" =>
          /\ dl_finalized < first_block_number
          /\ dl_pc = "fatal"
          /\ first_sent = "None"
          /\ block_events = <<>>
          /\ fetch_log = <<>>
          /\ download_fut = {}
    /\ dl_pc = "send_started" =>
          /\ dl_finalized >= first_block_number
          /\ dl_exit = ""
          /\ dl_event = Event("Started", dl_finalized)
    /\ dl_pc = "fatal" => dl_exit # ""

\* C14 witness: the run failed on a finalized block just below the starting
\* block.
FinalizedBehindIsFatalWitness ==
    /\ dl_exit = "finalized block is behind the starting block"
    /\ first_block_number > 0
    /\ dl_finalized = first_block_number - 1

\* The scenario's input: first_block_number = 0 and Initialize{head: 3,
\* finalized: 5} has just been handled.
FinalizedAheadScenario ==
    /\ Initialized
    /\ first_block_number = 0
    /\ head = 3
    /\ dl_finalized = 5

\* C15 as stated: given Initialize{head: 3, finalized: 5} with
\* first_block_number = 0 the downloader fails fatally with "finalized block
\* is behind the starting block" and emits no Started event.
FinalizedAheadScenarioFails ==
    FinalizedAheadScenario =>
        /\ dl_pc = "fatal"
        /\ dl_exit = "finalized block is behind the starting block"
        /\ dl_event.type # "Started"

\* C15 amended: given Initialize{head: 3, finalized: 5} with
\* first_block_number = 0 the downloader does not fail: it starts the fetch
\* of block 0 and sends Started{finalized: 5}.
FinalizedAheadScenarioStarts ==
    FinalizedAheadScenario =>
        /\ dl_pc = "send_started"
        /\ dl_exit = ""
        /\ dl_event = Event("Started", 5)
        /\ download_fut = {0}

\* C15 witness: the scenario's input was handled and Started{finalized: 5}
\* is being sent.
FinalizedAheadScenarioWitness ==
    /\ FinalizedAheadScenario
    /\ dl_pc = "send_started"
    /\ dl_event = Event("Started", 5)

\* C16: the first BlockEvent of a run is Started, it carries the finalized
\* cursor of Initialize, and Started is put on the channel once: only as
\* the first event, never after another event.
StartedFirstOnce ==
    /\ [](/\ first_sent \in {"None", "Started"}
          /\ started_sent <= 1
          /\ (first_sent = "None") = (started_sent = 0))
    /\ [][started_sent' # started_sent =>
            /\ started_sent = 0
            /\ first_sent = "None"
            /\ ingested_log = <<>>
            /\ block_events' = Append(block_events, Event("Started", dl_finalized))]_vars

\* C16 witness: after Started and an Ingested event, a Finalized event is on
\* the channel.
StartedFirstOnceWitness ==
    /\ started_sent = 1
    /\ ingested_log # <<>>
    /\ block_events # <<>>
    /\ Last(block_events).type = "Finalized"

\* C17: at most one fetch is in flight: a fetch is started only when none is
\* running, that is at initialization, after the Ingested event of the
\* previous one was sent, or on a NewHead received while idle; a NewHead
\* received while a fetch is in flight leaves that fetch running.
OneFetchInFlight ==
    /\ [](/\ Cardinality(download_fut) <= 1
          /\ (download_fut # {} => is_downloading))
    /\ [][fetch_log' # fetch_log =>
            /\ download_fut = {}
            /\ \/ dl_pc = "await_init"
               \/ dl_pc = "send_ingested"
               \/ dl_pc = "select" /\ ~is_downloading]_vars
    /\ [][(download_fut # {} /\ head' # head) => download_fut' = download_fut]_vars

\* C17 witness: block 1 is being fetched and the head is now below it: a
\* NewHead was received while the fetch is in flight.
OneFetchInFlightWitness ==
    /\ download_fut = {1}
    /\ fetch_log = <<0, 1>>
    /\ head = 0

\* ------------------------------------------------------------------------
\* Properties of the segmenter's start (checked under SpecSegmenterAnyStream)
\* ------------------------------------------------------------------------

\* C18: the first BlockEvent must be Started: on any other first event, or
\* on an ended stream, the segmenter returns a Fatal error and no
\* SnapshotChange is emitted; on Started it emits SnapshotChange::Started
\* with the unmodified starting snapshot, once, before every BlockIngested
\* and StateChanged.
FirstEventMustBeStarted ==
    /\ [](/\ first_change \in {"None", "Started"}
          /\ started_changes <= 1
          /\ (first_change = "None") = (started_changes = 0))
    /\ [][(seg_pc = "await_started" /\ seg_pc' # seg_pc) =>
            /\ first_change' = "None"
            /\ snapshot_changes' = <<>>
            /\ IF block_events # <<>> /\ Head(block_events).type = "Started"
               THEN /\ seg_pc' = "send_started"
                    /\ finalized' = Head(block_events).number
               ELSE seg_pc' = "fatal"]_vars
    /\ [][seg_pc = "fatal" => (seg_pc' = "fatal" /\ first_change' = first_change)]_vars
    /\ [][started_changes' # started_changes =>
            /\ started_changes = 0
            /\ snapshot = starting_snapshot
            /\ published = <<>>
            /\ snapshot_changes' = Append(snapshot_changes,
                    [type |-> "Started", snapshot |-> starting_snapshot])]_vars

\* C18 witness: Started was emitted, then a BlockIngested, and a snapshot
\* was published since.
FirstEventMustBeStartedWitness ==
    /\ started_changes = 1
    /\ published # <<>>
    /\ snapshot_changes # <<>>
    /\ Last(snapshot_changes).type = "StateChanged"

\* C19: once the segmenter has finished handling a BlockEvent, no complete
\* segment whose last block is finalized remains unsealed: it is not the
\* case that segment_size cursors are buffered and the segment_size-th has a
\* number <= finalized.number.
NoFinalizedSegmentUnsealed ==
    seg_pc = "select" => ~CanSeal

\* The block numbers first..last, in order.
Numbers(first, last) == [i \in 1..(last + 1 - first) |-> first + i - 1]

IsPrefix(s, t) == Len(s) <= Len(t) /\ \A i \in 1..Len(s) : s[i] = t[i]

\* Scenario 1 has run to its end: every message is consumed and both loops
\* wait in select!.
Scenario1Quiescent ==
    /\ head = Scenario1.new_head
    /\ dl_pc = "select"
    /\ download_fut = {}
    /\ block_events = <<>>
    /\ seg_pc = "select"
    /\ snapshot_changes = <<>>

\* The snapshots scenario 1 publishes.
Scenario1Published ==
    << [revision |-> 1, group_count |-> 0, extra_segment_count |-> 1],
       [revision |-> 2, group_count |-> 0, extra_segment_count |-> 2] >>

\* The end state the scenario describes.
Scenario1Expected ==
    /\ Scenario1Quiescent
    /\ ingested_log = Numbers(0, 12)
    /\ durable_segments = {[start |-> 0, records |-> Numbers(0, 3)],
                           [start |-> 4, records |-> Numbers(4, 7)]}
    /\ segment # <<>>
    /\ cursors = Numbers(8, 12)
    /\ published = Scenario1Published
    /\ snapshot.group_count = 0
    /\ snapshot.extra_segment_count = 2

\* C20: scenario 1 ends with Ingested sent for exactly the blocks 0..=12,
\* exactly two segments written (starts 0 and 4), the cursors from block 8
\* on buffered and unsealed, exactly two snapshots published, group_count = 0
\* and extra_segment_count = 2; on the way neither task fails, nothing else
\* is written and no block is sent out of order.
Scenario1Outcome ==
    /\ [](/\ ~dl_terminated
          /\ ~seg_terminated
          /\ ~ENABLED SegSealAssertFails
          /\ IsPrefix(ingested_log, Numbers(0, 12))
          /\ DurableStarts \subseteq {0, 4}
          /\ durable_groups = {}
          /\ IsPrefix(published, Scenario1Published)
          /\ snapshot.group_count = 0
          /\ (Scenario1Quiescent => Scenario1Expected))
    /\ <>[]Scenario1Expected

\* C20 witness: the scenario has run to its end, with the three blocks after
\* the old head ingested and buffered.
Scenario1OutcomeWitness ==
    /\ Scenario1Quiescent
    /\ Len(ingested_log) = 13
    /\ Len(published) = 2
    /\ Len(cursors) = 5

\* The segmenter has handled Ingested for the blocks 0..=4 and no Finalized
\* event yet.
Scenario2Ingested ==
    /\ seg_pc = "select"
    /\ finalized = Scenario2.finalized
    /\ segment # <<>>
    /\ cursors # <<>>
    /\ Last(cursors) = 4

\* Scenario 2 has run to its end.
Scenario2Quiescent ==
    /\ finalized = Scenario2.new_finalized
    /\ dl_pc = "select"
    /\ download_fut = {}
    /\ block_events = <<>>
    /\ seg_pc = "select"
    /\ snapshot_changes = <<>>

\* Segment 0..=3 is sealed, the snapshot revision is 1 and block 4 is
\* buffered.
Scenario2Sealed ==
    /\ durable_segments = {[start |-> 0, records |-> Numbers(0, 3)]}
    /\ published = <<[revision |-> 1, group_count |-> 0,
                      extra_segment_count |-> 1]>>
    /\ snapshot.revision = 1
    /\ segment # <<>>
    /\ cursors = <<4>>

\* C21 as stated: in scenario 2 no segment is sealed and the snapshot
\* revision is unchanged until Finalized(7) is handled; at the end segment
\* 0..=3 is sealed and the revision is 1.
Scenario2SealsOnFinalized ==
    /\ finalized # Scenario2.new_finalized =>
            /\ durable_segments = {}
            /\ published = <<>>
            /\ snapshot.revision = 0
    /\ Scenario2Quiescent => Scenario2Sealed

\* C21 amended: in scenario 2 segment 0..=3 seals while Ingested(3) is
\* handled, with finalized still 4: once Ingested is handled for 0..=4 the
\* snapshot revision is 1; Finalized(7) seals nothing further, and the run
\* ends with segment 0..=3 sealed, revision 1 and block 4 buffered.
Scenario2SealsOnIngested ==
    /\ [](/\ ~dl_terminated
          /\ ~seg_terminated
          /\ DurableStarts \subseteq {0}
          /\ snapshot.revision <= 1
          /\ Len(published) <= 1
          /\ ((segment # <<>> /\ Len(cursors) = 4) => seg_pc = "seal")
          /\ (Scenario2Ingested => Scenario2Sealed)
          /\ (Scenario2Quiescent => Scenario2Sealed))
    /\ <>[](Scenario2Quiescent /\ Scenario2Sealed)

\* C21 witness: Ingested was handled for 0..=4, segment 0..=3 is sealed and
\* NewFinalized(7) has not been driven yet.
Scenario2SealsOnIngestedWitness ==
    /\ Scenario2Ingested
    /\ ~Scenario2Driven
    /\ Scenario2Sealed
    /\ snapshot_changes = <<>>

\* The blocks of the segment starting at s are all buffered.
FullyBuffered(s) ==
    /\ segment # <<>>
    /\ \A n \in s..(s + segment_size - 1) :
           \E i \in 1..Len(cursors) : cursors[i] = n

\* The segmenter is about to handle a Finalized event at or past the last
\* block of the fully buffered segment starting at s, whose blocks are all
\* above the finalized cursor held so far.
FinalizedPastBuffered(s) ==
    /\ s = segment_start(s)
    /\ seg_pc = "select"
    /\ block_events # <<>>
    /\ Head(block_events).type = "Finalized"
    /\ Head(block_events).number >= s + segment_size - 1
    /\ s > finalized
    /\ FullyBuffered(s)

\* C22: (a) handling Ingested(c) with c.number > finalized.number appends c
\* and writes no segment and no snapshot in that step; (b) the segment
\* artifact is written in a step of its own, before the snapshot is; (c) a
\* Finalized event at or past the last block of a fully buffered segment of
\* such cursors leads to that segment being written and a snapshot being
\* published after it, unless an Io error ends the segmenter.
SealsOnceFinalized ==
    /\ [][(/\ seg_pc = "select"
           /\ seg_pc' # seg_pc
           /\ block_events # <<>>
           /\ Head(block_events).type = "Ingested"
           /\ Head(block_events).number > finalized) =>
            /\ segment' # <<>>
            /\ Last(segment'[1].cursors) = Head(block_events).number
            /\ seg_pc' = "send_block_ingested"
            /\ durable_segments' = durable_segments
            /\ published' = published
            /\ snapshot' = snapshot]_vars
    /\ [][durable_segments' # durable_segments =>
            (published' = published /\ seg_pc' = "write_snapshot")]_vars
    /\ \A s \in Blocks :
          FinalizedPastBuffered(s) ~>
            \/ s \in DurableStarts /\ seg_pc = "send_state_changed"
            \/ seg_pc = "error"

\* C23: handling a BlockEvent::Invalidate ends the segmenter with a Fatal
\* error, not with a panic and not by carrying on, and no snapshot is
\* published after it.
InvalidateIsFatal ==
    /\ [][(/\ seg_pc = "select"
           /\ seg_pc' # seg_pc
           /\ block_events # <<>>
           /\ Head(block_events).type = "Invalidate") =>
            seg_pc' = "fatal"]_vars
    /\ [][seg_pc = "fatal" => (seg_pc' = "fatal" /\ published' = published)]_vars

\* The download loop is sending an event.
DlSending == dl_pc \in {"send_started", "send_ingested", "send_change"}

\* C24: when the receiver of the BlockEvent queue is dropped, the send the
\* download loop attempts (of Started, Ingested, Finalized or Invalidate)
\* makes it return Ok: no Fatal error, nothing enqueued, no other fetch
\* started; and a loop that returned stays returned.
ClosedQueueStopsDownloader ==
    /\ [][(DlSending /\ SendCloses /\ dl_pc' # dl_pc) =>
            /\ dl_pc' = "ok"
            /\ dl_exit' = "receiver dropped"
            /\ block_events' = block_events
            /\ fetch_log' = fetch_log
            /\ current_block_number' = current_block_number]_vars
    /\ [][dl_exit = "receiver dropped" =>
            /\ dl_pc' = dl_pc
            /\ dl_exit' = dl_exit
            /\ fetch_log' = fetch_log
            /\ ingested_log' = ingested_log
            /\ Len(block_events') <= Len(block_events)]_vars

\* C24 witness: the loop returned on a failed send after it had ingested a
\* block and with a fetch still to do.
ClosedQueueStopsDownloaderWitness ==
    /\ dl_pc = "ok"
    /\ dl_exit = "receiver dropped"
    /\ ingested_log # <<>>
    /\ current_block_number < head

\* The segmenter is sending a SnapshotChange.
SegSending ==
    seg_pc \in {"send_started", "send_block_ingested", "send_state_changed"}

\* C25: when the receiver of the SnapshotChange queue is dropped, the send
\* the segmenter attempts (of Started, BlockIngested or StateChanged) makes
\* it return Ok: no error and no panic.
ClosedQueueStopsSegmenter ==
    [][(SegSending /\ SnapshotSendCloses /\ seg_pc' # seg_pc) =>
            seg_pc' = "ok"]_vars

\* C26 (downloader task): once the cancellation token is cancelled the
\* download loop eventually returns Ok, from every state it can be in, and
\* emits nothing after it returned.
CancelStopsDownloader ==
    /\ ct ~> (dl_pc = "ok")
    /\ [][dl_pc = "ok" =>
            (dl_pc' = "ok" /\ Len(block_events') <= Len(block_events))]_vars

NonDecreasing(q) == \A i, j \in 1..Len(q) : i < j => q[i] <= q[j]

\* C27 as stated: whatever the ChainChange inputs are, the finalized cursor
\* of the BlockEvent stream and the segmenter's `finalized` never decrease.
FinalizedNeverDecreases ==
    [][seg_pc' # "await_started" /\ seg_pc # "await_started" =>
            finalized' >= finalized]_vars

\* C27 amended: the downloader and the segmenter keep the finalized
\* cursors in the order the chain tracker reported them: while the download
\* loop runs, the newest one in the pipeline is the one the tracker
\* reported last; their order in the
\* BlockEvent stream (the cursor of Started included) is broken only by a
\* NewFinalized input below the cursor reported before it; and the
\* segmenter's `finalized` decreases only when handling a Finalized event
\* that was sent out of order for that reason.
FinalizedOrderPreserved ==
    /\ []((FinalizedInFlight # <<>> /\ (dl_pc = "select" \/ DlSending)) =>
            Last(FinalizedInFlight) = tracker_finalized)
    /\ [][(NonDecreasing(FinalizedInFlight) /\ ~NonDecreasing(FinalizedInFlight')) =>
            tracker_finalized' < tracker_finalized]_vars
    /\ [][(seg_pc # "await_started" /\ finalized' < finalized) =>
            ~NonDecreasing(FinalizedInFlight)]_vars

\* C27 witness: the segmenter holds a finalized cursor that a Finalized
\* event advanced, and a Finalized event further on is queued behind it.
FinalizedOrderPreservedWitness ==
    /\ seg_pc = "select"
    /\ started_sent = 1
    /\ finalized > 0
    /\ published # <<>>
    /\ block_events # <<>>
    /\ Head(block_events).type = "Finalized"
    /\ Head(block_events).number > finalized

\* A seal that was attempted (at least N cursors buffered, the N-th one
\* finalized) and ended without the segment written and without the
\* assertion on the header count failing: the read of a staged block or the
\* write of the segment returned an error.
SealFailsWithIo ==
    /\ seg_pc = "seal"
    /\ CanSeal
    /\ seg_pc' \notin {"seal", "write_snapshot", "assert_failed"}

\* C28: when the read of a staged block or the write of the segment fails
\* during a seal, the segmenter terminates with the error; the durable
\* snapshot document and the in-memory snapshot keep the revision and the
\* counts of the last publish, no segment is recorded, and no StateChanged
\* is sent for that seal, neither at the failure nor afterwards.
IoFailureStopsSegmenter ==
    /\ [][SealFailsWithIo =>
            /\ seg_pc' = "error"
            /\ published' = published
            /\ snapshot' = snapshot
            /\ durable_segments' = durable_segments
            /\ durable_groups' = durable_groups
            /\ snapshot_changes' = snapshot_changes]_vars
    /\ [][seg_pc = "error" =>
            /\ seg_pc' = "error"
            /\ published' = published
            /\ snapshot' = snapshot
            /\ durable_segments' = durable_segments
            /\ Len(snapshot_changes') <= Len(snapshot_changes)]_vars

\* C28 witness: the segmenter stopped with the error of a seal that failed
\* after an earlier seal had been published: the in-memory snapshot is
\* still the published one, and cursors of the failed seal's segment are
\* staged but in no segment.
IoFailureStopsSegmenterWitness ==
    /\ seg_pc = "error"
    /\ published # <<>>
    /\ snapshot = Last(published)
    /\ Cardinality(durable_segments) = Len(published)
    /\ \E n \in staged :
            /\ n >= segment_size
            /\ \A d \in durable_segments :
                    \A i \in 1..Len(d.records) : d.records[i] # n

\* The download loop is past its initialization and has not returned.
DlLooping == dl_pc = "select" \/ DlSending

EmittedIngested(n) == \E i \in 1..Len(ingested_log) : ingested_log[i] = n

\* C29: with no cancellation, fetches that complete and a consumer that
\* keeps receiving, the downloader is idle only when every block from
\* first_block_number to the latest head has been emitted as Ingested, and
\* every block n with first_block_number <= n <= head.number is eventually
\* emitted as Ingested (unless a later head is below n).
EveryBlockUpToHeadIngested ==
    /\ []((dl_pc = "select" /\ ~is_downloading) =>
            \A n \in first_block_number..head : EmittedIngested(n))
    /\ \A n \in Blocks :
            (DlLooping /\ first_block_number <= n /\ n <= head)
                ~> (EmittedIngested(n) \/ head < n)

\* The segments a step adds to durable storage.
SegmentsWritten == durable_segments' \ durable_segments

\* C30: every block record written into a segment is at or below the
\* segmenter's `finalized` at the time of the seal; a segment is written
\* only when at least N cursors are buffered and the N-th is at or below
\* `finalized`; and a seal attempt that finds otherwise leaves the buffer,
\* the snapshot and durable storage as they were.
SealsOnlyFinalizedBlocks ==
    /\ [][\A d \in SegmentsWritten :
            /\ \A i \in 1..Len(d.records) : d.records[i] <= finalized
            /\ seg_pc = "seal"
            /\ segment # <<>>
            /\ Len(cursors) >= segment_size
            /\ cursors[segment_size] <= finalized]_vars
    /\ [][(/\ seg_pc = "seal"
           /\ ~(/\ segment # <<>>
                /\ Len(cursors) >= segment_size
                /\ cursors[segment_size] <= finalized)) =>
            /\ segment' = segment
            /\ snapshot' = snapshot
            /\ published' = published
            /\ durable_segments' = durable_segments
            /\ durable_groups' = durable_groups]_vars

\* C30 witness: a segment was just written whose last record is the
\* finalized block itself, while a cursor above `finalized` stays buffered.
SealsOnlyFinalizedBlocksWitness ==
    /\ seg_pc = "write_snapshot"
    /\ segment # <<>>
    /\ cursors # <<>>
    /\ cursors[1] > finalized
    /\ \E d \in durable_segments :
            /\ Len(d.records) = segment_size
            /\ d.records[segment_size] = finalized

\* The segmenter takes an Ingested event off the BlockEvent queue.
HandlesIngested ==
    /\ seg_pc = "select"
    /\ block_events # <<>>
    /\ Head(block_events).type = "Ingested"
    /\ block_events' = Pop(block_events)

\* A BlockIngested change is put on the SnapshotChange queue.
EmitsBlockIngested ==
    /\ Len(snapshot_changes') = Len(snapshot_changes) + 1
    /\ Last(snapshot_changes').type = "BlockIngested"

\* C31: handling Ingested(c) goes on to emit BlockIngested{c} exactly when
\* there is no in-progress segment (one is opened with group_start = c) or
\* c >= segment_start(finalized); then no seal is attempted in that step.
\* Otherwise a seal is attempted and no BlockIngested{c} is emitted.
BlockIngestedOrSeal ==
    /\ [][HandlesIngested =>
            LET c == Head(block_events).number IN
            IF segment = <<>> \/ c >= segment_start(finalized)
            THEN /\ seg_pc' = "send_block_ingested"
                 /\ Last(segment'[1].cursors) = c
                 /\ segment = <<>> =>
                        segment' = <<[group_start |-> c, cursors |-> <<c>>]>>
            ELSE /\ seg_pc' = "seal"
                 /\ Last(segment'[1].cursors) = c]_vars
    /\ [][seg_pc = "send_block_ingested" =>
            /\ seg_pc' \in {"send_block_ingested", "select", "todo"}
            /\ segment' = segment
            /\ snapshot' = snapshot
            /\ durable_segments' = durable_segments
            /\ published' = published
            /\ seg_pc' = "select" =>
                    /\ EmitsBlockIngested
                    /\ Last(snapshot_changes').cursor = Last(cursors)]_vars
    /\ [][EmitsBlockIngested => seg_pc = "send_block_ingested"]_vars

\* C31 witness: with a segment in progress and finalized past the first
\* segment, the cursor just pushed is in the finalized cursor's segment or
\* after it, and its BlockIngested is about to be sent without a seal.
BlockIngestedOrSealWitness ==
    /\ seg_pc = "send_block_ingested"
    /\ Len(cursors) >= 2
    /\ finalized >= segment_size
    /\ Last(cursors) >= segment_start(finalized)

\* A StateChanged change is put on the SnapshotChange queue.
EmitsStateChanged ==
    /\ Len(snapshot_changes') = Len(snapshot_changes) + 1
    /\ Last(snapshot_changes').type = "StateChanged"

\* (group_count, extra_segment_count) of a is below that of b.
IngestionStateBelow(a, b) ==
    \/ a.group_count < b.group_count
    \/ /\ a.group_count = b.group_count
       /\ a.extra_segment_count < b.extra_segment_count

\* C32: every snapshot publish is followed by the send of one StateChanged
\* before anything else happens in the segmenter, the next seal included;
\* a StateChanged is sent at no other time; it carries the group_count and
\* extra_segment_count of the snapshot just published and the current
\* finalized cursor; and the published ingestion states, hence the
\* StateChanged changes, strictly increase in lexicographic order.
OneStateChangedPerPublish ==
    /\ [][published' # published =>
            /\ seg_pc = "write_snapshot"
            /\ seg_pc' = "send_state_changed"
            /\ published' = Append(published, snapshot)
            /\ snapshot' = snapshot]_vars
    /\ [][seg_pc = "send_state_changed" =>
            /\ seg_pc' \in {"send_state_changed", "seal", "todo"}
            /\ published' = published
            /\ snapshot' = snapshot
            /\ finalized' = finalized
            /\ durable_segments' = durable_segments
            /\ seg_pc' = "seal" => EmitsStateChanged]_vars
    /\ [][EmitsStateChanged =>
            /\ seg_pc = "send_state_changed"
            /\ seg_pc' = "seal"
            /\ Last(snapshot_changes').group_count = Last(published).group_count
            /\ Last(snapshot_changes').extra_segment_count =
                    Last(published).extra_segment_count
            /\ Last(snapshot_changes').finalized = finalized]_vars
    /\ [](\A i, j \in 1..Len(published) :
            i < j => IngestionStateBelow(published[i], published[j]))
    /\ [](\A i, j \in 1..Len(snapshot_changes) :
            (/\ i < j
             /\ snapshot_changes[i].type = "StateChanged"
             /\ snapshot_changes[j].type = "StateChanged") =>
                IngestionStateBelow(snapshot_changes[i], snapshot_changes[j]))

\* C32 witness: the StateChanged of the second publish, which crossed a
\* group boundary, has just been sent and the seal loop goes round again.
OneStateChangedPerPublishWitness ==
    /\ seg_pc = "seal"
    /\ Len(published) = 2
    /\ snapshot_changes # <<>>
    /\ Last(snapshot_changes).type = "StateChanged"
    /\ Last(snapshot_changes).group_count = 1
    /\ Last(snapshot_changes).extra_segment_count = 0
    /\ Last(snapshot_changes).finalized = finalized

\* The seal step that writes segment/{current_segment_start}.
WritesSegment == seg_pc = "seal" /\ seg_pc' = "write_snapshot"

\* The start of the segment written last.
LastSegmentStart ==
    CHOOSE m \in {d.start : d \in durable_segments} :
        \A d \in durable_segments : d.start <= m

\* C33: no key segment/{name} is written twice, and each seal writes the
\* segment that starts exactly N after the one written before it.
SegmentsWrittenOnceInOrder ==
    [][WritesSegment =>
        /\ \A d \in durable_segments : d.start # current_segment_start
        /\ durable_segments # {} =>
                current_segment_start = LastSegmentStart + segment_size]_vars

\* The cursor n is held by the segmenter: buffered in the in-progress
\* segment or written into a segment.
CursorHeld(n) ==
    \/ segment # <<>> /\ \E i \in 1..Len(cursors) : cursors[i] = n
    \/ \E d \in durable_segments : \E i \in 1..Len(d.records) : d.records[i] = n

\* C34: no ingested cursor is lost: once the segmenter has handled an event
\* and waits for the next, every cursor it received through Ingested is in
\* the in-progress buffer or in a written segment, the cursors kept back by
\* a seal that crossed a group boundary included.
NoCursorLost ==
    seg_pc = "select" =>
        \A i \in 1..Len(ingested_log) :
            \/ \E k \in 1..Len(block_events) :
                    block_events[k] = Event("Ingested", ingested_log[i])
            \/ CursorHeld(ingested_log[i])

\* poll_next examines the inner stream: it takes a response or sees its end.
ExaminesResponse ==
    \/ Len(responses') < Len(responses)
    \/ stream_ended = "no" /\ stream_ended' = "inner"

\* C35: a configuration that is ready is taken by the next poll whatever
\* the state of the request queue; the k-th one taken is given stream_id k
\* and put on the request queue by try_send; when the queue is full or its
\* receiver was dropped, the poll yields an error, the queue is left as it
\* is and nothing waits; and no server response is examined while a
\* configuration is ready.
ConfigurationSentOrError ==
    /\ []((stream_ended = "no" /\ configuration_stream.ready > 0) =>
            ENABLED ClientConfigure)
    /\ [][stream_id' # stream_id =>
            /\ configuration_stream.ready > 0
            /\ configuration_stream'.ready = configuration_stream.ready - 1
            /\ stream_id' = stream_id + 1
            /\ configured'.stream_id = stream_id'
            /\ IF Len(requests) < QueueCap /\ ~inner_rx_dropped
               THEN /\ requests' = Append(requests, stream_id')
                    /\ configured'.outcome = "pending"
               ELSE /\ requests' = requests
                    /\ configured'.outcome = "error"
            /\ ~ExaminesResponse
            /\ polled' = polled]_vars
    /\ [][configuration_stream'.ready < configuration_stream.ready =>
            stream_id' = stream_id + 1]_vars
    /\ [][ExaminesResponse => configuration_stream.ready = 0]_vars

\* C35 witness: the second configuration was taken while the request queue
\* was still full with its receiver in place: the poll yielded an error and
\* the queue holds what it held.
ConfigurationSentOrErrorWitness ==
    /\ stream_id = 2
    /\ configured = [stream_id |-> 2, outcome |-> "error"]
    /\ ~inner_rx_dropped
    /\ Len(requests) = QueueCap
    /\ last_forwarded = 1

\* The configuration stream has finished: it ended and nothing is left to
\* take from it, so polling it gives Ready(None).
ConfigurationFinished ==
    configuration_stream.ended /\ configuration_stream.ready = 0

\* C36: once the configuration stream has finished, the next poll ends the
\* data stream, whatever responses are waiting; from then on no response is
\* examined, so no message is yielded, and no configuration is forwarded.
EndsWithConfigurationStream ==
    /\ []((ConfigurationFinished /\ stream_ended = "no") =>
            ENABLED ClientConfigurationEnded)
    /\ [][ConfigurationFinished =>
            /\ ~ExaminesResponse
            /\ polled' = polled
            /\ stream_id' = stream_id
            /\ stream_ended' \in {stream_ended, "configuration"}]_vars
    /\ [][(stream_ended = "no" /\ stream_ended' = "configuration") =>
            /\ ConfigurationFinished
            /\ responses' = responses]_vars

\* C36 witness: the data stream ended with the configuration stream while
\* a Data response tagged with the current stream id was waiting.
EndsWithConfigurationStreamWitness ==
    /\ stream_ended = "configuration"
    /\ stream_id > 0
    /\ last_forwarded = stream_id
    /\ responses # <<>>
    /\ Head(responses) = Response(stream_id, "Data")

====
